---- MODULE Spec2Model ----
(***************************************************************************)
(* Model of taxai: the TaxFormController handlers (createTaxForm,          *)
(* getTaxForm, updateTaxForm, submitTaxForm), the TaxFormModel queries they *)
(* run, the tax_configurations data shipped with the schema, the rule      *)
(* engine (rule-set loading, bracket lookup, validator) that the design    *)
(* document describes, the AuthService over its in-memory user database,   *)
(* the response interceptor of the frontend's ApiService and the rbac      *)
(* middleware.                                                             *)
(*                                                                         *)
(* Money: incomes and bracket limits are in thousands of VND (kVND), rates *)
(* are in percent, so income * rate is a tax amount in units of 10 VND.    *)
(***************************************************************************)
EXTENDS Integers, Sequences, FiniteSets, TLC

VARIABLES
  forms,          \* table tax_forms: form id -> row, or NoForm
  fields,         \* table form_fields: field id -> row, or NoField
  req,            \* request slot -> the live locals of a handler suspended at its
                  \* second await (existingForm is dead by then), or Idle
  response,       \* the last HTTP response sent
  registry,       \* rule registry: year -> personal_income bracket list, or NoRule
  lastLoad,       \* year -> the table offered for it at load time and the
                  \* outcome, or NoLoad
  taxableIncome,  \* input of the last calculation (kVND)
  result,         \* output of the last calculation, or NoResult
  inputValues,    \* the fieldValues map handed to the validator
  validation,     \* the last ValidationResult with its template, or NoValidation
  users,          \* MockUserDatabase.users: user id -> user, or NoUser
  tokens,         \* the emailVerificationTokens and passwordResetTokens maps
  authReq,        \* request slot -> the live locals of register suspended at
                  \* hashPassword, or Idle
  authResult,     \* the outcome of the last AuthService call that ended
  client,         \* the ApiService of the browser: requests in flight, the
                  \* stored access token, the location, the refresh calls made
  audit,          \* the audit middleware: the pool, the requests it wrapped,
                  \* the rows of audit_logs
  rbac            \* the last request offered to requirePermission and what
                  \* the middleware did with it

vars ==
  <<forms, fields, req, response, registry, lastLoad, taxableIncome, result,
    inputValues, validation, users, tokens, authReq, authResult, client, audit,
    rbac>>

formVars == <<forms, fields, req, response>>
engineVars == <<registry, lastLoad, taxableIncome, result>>
validatorVars == <<inputValues, validation>>
authVars == <<users, tokens, authReq, authResult>>
clientVars == <<client>>
rbacVars == <<rbac>>
auditVars == <<audit>>

-----------------------------------------------------------------------------
(* Values *)

Undefined == "undefined"
Null == "null"
\* absent rows and the idle slot are records, so that they compare with rows
NoForm == [status |-> "NoForm"]
NoField == [fieldValue |-> "NoField"]
Idle == [op |-> "idle"]

\* enum FormStatus
FormStatus ==
  {"DRAFT", "COMPLETED", "SUBMITTED", "APPROVED", "REJECTED", "CANCELLED"}

\* authenticated callers (req.user.id) and the role in their token
UserIds == {"alice", "bob", "root"}
roleOf == [alice |-> "individual", bob |-> "individual", root |-> "admin"]

FormIds == {"f1"}
FieldIds == {1, 2}
FieldNames == {"full_name", "tax_id"}
Reqs == {"r1", "r2"}

\* request bodies: notes, and a status the PUT route validates with isIn
Notes == {"n1"}
BodyStatus == FormStatus \cup {Undefined, "ARCHIVED"}
Bodies == [status : BodyStatus, notes : {Undefined, "n2"}]

\* values of new Date().toISOString()
Dates == {"t1"}

FieldValues == {"", "v1"}

-----------------------------------------------------------------------------
(* TaxFormModel *)

\* TaxFormModel.findById: the row, or null
findById(id) == forms[id]

\* TaxFormModel.update: SET every key of updates whose value is not undefined;
\* with no such key the transaction is rolled back and nothing is written
update(row, updates) ==
  [k \in DOMAIN row |->
     IF k \in DOMAIN updates /\ updates[k] # Undefined THEN updates[k] ELSE row[k]]

\* the body.status validator of PUT /:id
validStatus(body) == body.status \in FormStatus \cup {Undefined}

Response(op, status, code) == [op |-> op, status |-> status, code |-> code]

-----------------------------------------------------------------------------
(* TaxFormController *)

\* createTaxForm: a DRAFT row with version 1, owned by the caller
createTaxForm(r, u, notes) ==
  /\ req[r] = Idle
  /\ \E id \in FormIds :
       /\ forms[id] = NoForm
       /\ forms' = [forms EXCEPT ![id] =
            [userId |-> u, status |-> "DRAFT", notes |-> notes,
             submissionDate |-> Null, version |-> 1]]
  /\ response' = Response("create", 201, "OK")
  /\ UNCHANGED <<fields, req>>

\* TaxFormModel.getCompleteForm: the row of tax_forms (with its sections and
\* fields attached), or null
getCompleteForm(id) == forms[id]

\* getTaxForm with the owner check left out
getTaxForm_NoOwnerCheck(r, u, id) ==
  /\ req[r] = Idle
  /\ LET form == getCompleteForm(id) IN
       response' = IF form = NoForm
                   THEN Response("get", 404, "NOT_FOUND")
                   ELSE Response("get", 200, "OK")
  /\ UNCHANGED <<forms, fields, req>>

\* getTaxForm: the complete form for its owner or an admin
getTaxForm(r, u, id) ==
  /\ req[r] = Idle
  /\ LET form == getCompleteForm(id) IN
       response' = IF form = NoForm
                   THEN Response("get", 404, "NOT_FOUND")
                   ELSE IF form.userId # u /\ roleOf[u] # "admin"
                   THEN Response("get", 403, "FORBIDDEN")
                   ELSE Response("get", 200, "OK")
  /\ UNCHANGED <<forms, fields, req>>

\* updateTaxForm up to its second await: validation, findById and the checks
updateTaxFormFind(r, u, id, body) ==
  /\ req[r] = Idle
  /\ LET existingForm == findById(id) IN
       IF ~validStatus(body)
       THEN /\ response' = Response("update", 400, "VALIDATION_ERROR")
            /\ UNCHANGED req
       ELSE IF existingForm = NoForm
       THEN /\ response' = Response("update", 404, "NOT_FOUND")
            /\ UNCHANGED req
       ELSE IF existingForm.userId # u /\ roleOf[u] # "admin"
       THEN /\ response' = Response("update", 403, "FORBIDDEN")
            /\ UNCHANGED req
       ELSE IF existingForm.status = "SUBMITTED" /\ roleOf[u] # "admin"
       THEN /\ response' = Response("update", 400, "INVALID_STATUS")
            /\ UNCHANGED req
       ELSE /\ req' = [req EXCEPT ![r] =
                 [op |-> "update", user |-> u, id |-> id, updates |-> body]]
            /\ UNCHANGED response
  /\ UNCHANGED <<forms, fields>>

\* updateTaxForm from its second await: taxFormModel.update and the answer
updateTaxFormWrite(r) ==
  /\ req[r] # Idle
  /\ req[r].op = "update"
  /\ forms' = [forms EXCEPT ![req[r].id] = update(@, req[r].updates)]
  /\ response' = Response("update", 200, "OK")
  /\ req' = [req EXCEPT ![r] = Idle]
  /\ UNCHANGED fields

\* submitTaxForm up to its second await, with the status check left out
submitTaxFormFind_AnyStatus(r, u, id) ==
  /\ req[r] = Idle
  /\ LET existingForm == findById(id) IN
       IF existingForm = NoForm
       THEN /\ response' = Response("submit", 404, "NOT_FOUND")
            /\ UNCHANGED req
       ELSE IF existingForm.userId # u
       THEN /\ response' = Response("submit", 403, "FORBIDDEN")
            /\ UNCHANGED req
       ELSE /\ req' = [req EXCEPT ![r] =
                 [op |-> "submit", user |-> u, id |-> id]]
            /\ UNCHANGED response
  /\ UNCHANGED <<forms, fields>>

\* submitTaxForm up to its second await
submitTaxFormFind(r, u, id) ==
  /\ req[r] = Idle
  /\ LET existingForm == findById(id) IN
       IF existingForm = NoForm
       THEN /\ response' = Response("submit", 404, "NOT_FOUND")
            /\ UNCHANGED req
       ELSE IF existingForm.userId # u
       THEN /\ response' = Response("submit", 403, "FORBIDDEN")
            /\ UNCHANGED req
       ELSE IF existingForm.status # "DRAFT" /\ existingForm.status # "COMPLETED"
       THEN /\ response' = Response("submit", 400, "INVALID_STATUS")
            /\ UNCHANGED req
       ELSE /\ req' = [req EXCEPT ![r] =
                 [op |-> "submit", user |-> u, id |-> id]]
            /\ UNCHANGED response
  /\ UNCHANGED <<forms, fields>>

\* submitTaxForm from its second await
submitTaxFormWrite(r, now) ==
  /\ req[r] # Idle
  /\ req[r].op = "submit"
  /\ forms' = [forms EXCEPT ![req[r].id] =
       update(@, [status |-> "SUBMITTED", submissionDate |-> now])]
  /\ response' = Response("submit", 200, "OK")
  /\ req' = [req EXCEPT ![r] = Idle]
  /\ UNCHANGED fields

-----------------------------------------------------------------------------
(* TaxFormModel, table form_fields *)

\* TaxFormModel.createField: INSERT a field row; section_id references a
\* section of an existing form (form_sections.tax_form_id)
createField(fid, formId, fieldName, isCalculated, value) ==
  /\ fields[fid] = NoField
  /\ forms[formId] # NoForm
  /\ fields' = [fields EXCEPT ![fid] =
       [taxFormId |-> formId, fieldName |-> fieldName,
        isCalculated |-> isCalculated, fieldValue |-> value]]
  /\ UNCHANGED <<forms, req, response>>

\* TaxFormModel.updateFieldValue: UPDATE form_fields SET field_value WHERE id;
\* no row matches an unknown id and null is returned
updateFieldValue(fid, value) ==
  /\ fields' = IF fields[fid] = NoField THEN fields
                ELSE [fields EXCEPT ![fid].fieldValue = value]
  /\ UNCHANGED <<forms, req, response>>

\* the field values of a form, by field name; of two rows with one name the
\* first in id order
fieldValuesOf(formId) ==
  LET rows == {fid \in FieldIds :
                 fields[fid] # NoField /\ fields[fid].taxFormId = formId}
      names == {fields[fid].fieldName : fid \in rows}
      first(n) == CHOOSE fid \in rows :
                    /\ fields[fid].fieldName = n
                    /\ \A g \in rows : fields[g].fieldName = n => fid <= g
  IN [n \in names |-> fields[first(n)].fieldValue]

-----------------------------------------------------------------------------
(* Validator *)

\* the TNCN_ANNUAL template with full_name left optional
TNCN_ANNUAL_OptionalName ==
  [type |-> "TNCN_ANNUAL",
   sections |-> <<
     [name |-> "taxpayer_info", order |-> 1, required |-> TRUE,
      fields |-> <<
        [name |-> "full_name", type |-> "TEXT", required |-> FALSE],
        [name |-> "tax_id", type |-> "TEXT", required |-> TRUE],
        [name |-> "address", type |-> "TEXTAREA", required |-> TRUE] >>] >>]

\* the TNCN_ANNUAL template served by getFormTemplates
TNCN_ANNUAL ==
  [type |-> "TNCN_ANNUAL",
   sections |-> <<
     [name |-> "taxpayer_info", order |-> 1, required |-> TRUE,
      fields |-> <<
        [name |-> "full_name", type |-> "TEXT", required |-> TRUE],
        [name |-> "tax_id", type |-> "TEXT", required |-> TRUE],
        [name |-> "address", type |-> "TEXTAREA", required |-> TRUE] >>] >>]

\* a value is absent or empty
isEmpty(fieldValues, name) ==
  name \notin DOMAIN fieldValues \/ fieldValues[name] = ""

\* the errors of one section: REQUIRED for each required field without value,
\* in declared order
RECURSIVE fieldErrors(_, _)
fieldErrors(fs, fieldValues) ==
  IF fs = <<>> THEN <<>>
  ELSE LET f == Head(fs)
           e == IF f.required /\ isEmpty(fieldValues, f.name)
                THEN <<[field |-> f.name, code |-> "REQUIRED"]>>
                ELSE <<>>
       IN e \o fieldErrors(Tail(fs), fieldValues)

RECURSIVE sectionErrors(_, _)
sectionErrors(ss, fieldValues) ==
  IF ss = <<>> THEN <<>>
  ELSE fieldErrors(Head(ss).fields, fieldValues)
         \o sectionErrors(Tail(ss), fieldValues)

\* validate(template, fieldValues) -> {isValid, errors}
validate(template, fieldValues) ==
  LET errors == sectionErrors(template.sections, fieldValues)
  IN [isValid |-> errors = <<>>, errors |-> errors]

NoValidation == [outcome |-> "none"]
NoValues == [n \in {} |-> ""]

InitValidatorIdle ==
  /\ inputValues = NoValues
  /\ validation = NoValidation

\* a call of the validator: the result is kept with the template and the
\* map it was given; the map itself is left alone
Validate(template) ==
  /\ validation' = [template |-> template, input |-> inputValues]
                      @@ validate(template, inputValues)
  /\ UNCHANGED inputValues

-----------------------------------------------------------------------------
(* Rule registry and calculator *)

\* JSON null as maxIncome: the bracket has no upper limit
Unbounded == -1

\* the shipped table with a gap: the second bracket starts above the limit
\* of the first
Brackets2024_Gap ==
  << [minIncome |-> 0,     maxIncome |-> 5000,      rate |-> 5,  deduction |-> 0],
     [minIncome |-> 5001,  maxIncome |-> 10000,     rate |-> 10, deduction |-> 250],
     [minIncome |-> 10000, maxIncome |-> 18000,     rate |-> 15, deduction |-> 750],
     [minIncome |-> 18000, maxIncome |-> 32000,     rate |-> 20, deduction |-> 1650],
     [minIncome |-> 32000, maxIncome |-> 52000,     rate |-> 25, deduction |-> 3250],
     [minIncome |-> 52000, maxIncome |-> 80000,     rate |-> 30, deduction |-> 5850],
     [minIncome |-> 80000, maxIncome |-> Unbounded, rate |-> 35, deduction |-> 9850] >>

\* the shipped table with the deduction of the second bracket left at 0
Brackets2024_NoDeduction ==
  << [minIncome |-> 0,     maxIncome |-> 5000,      rate |-> 5,  deduction |-> 0],
     [minIncome |-> 5000,  maxIncome |-> 10000,     rate |-> 10, deduction |-> 0],
     [minIncome |-> 10000, maxIncome |-> 18000,     rate |-> 15, deduction |-> 750],
     [minIncome |-> 18000, maxIncome |-> 32000,     rate |-> 20, deduction |-> 1650],
     [minIncome |-> 32000, maxIncome |-> 52000,     rate |-> 25, deduction |-> 3250],
     [minIncome |-> 52000, maxIncome |-> 80000,     rate |-> 30, deduction |-> 5850],
     [minIncome |-> 80000, maxIncome |-> Unbounded, rate |-> 35, deduction |-> 9850] >>

\* the shipped table with the deduction of the third bracket mistyped
Brackets2024_DeductionSlip ==
  << [minIncome |-> 0,     maxIncome |-> 5000,      rate |-> 5,  deduction |-> 0],
     [minIncome |-> 5000,  maxIncome |-> 10000,     rate |-> 10, deduction |-> 250],
     [minIncome |-> 10000, maxIncome |-> 18000,     rate |-> 15, deduction |-> 7500],
     [minIncome |-> 18000, maxIncome |-> 32000,     rate |-> 20, deduction |-> 1650],
     [minIncome |-> 32000, maxIncome |-> 52000,     rate |-> 25, deduction |-> 3250],
     [minIncome |-> 52000, maxIncome |-> 80000,     rate |-> 30, deduction |-> 5850],
     [minIncome |-> 80000, maxIncome |-> Unbounded, rate |-> 35, deduction |-> 9850] >>

\* the shipped table with the rate of the fourth bracket mistyped
Brackets2024_RateSlip ==
  << [minIncome |-> 0,     maxIncome |-> 5000,      rate |-> 5,  deduction |-> 0],
     [minIncome |-> 5000,  maxIncome |-> 10000,     rate |-> 10, deduction |-> 250],
     [minIncome |-> 10000, maxIncome |-> 18000,     rate |-> 15, deduction |-> 750],
     [minIncome |-> 18000, maxIncome |-> 32000,     rate |-> 25, deduction |-> 1650],
     [minIncome |-> 32000, maxIncome |-> 52000,     rate |-> 25, deduction |-> 3250],
     [minIncome |-> 52000, maxIncome |-> 80000,     rate |-> 30, deduction |-> 5850],
     [minIncome |-> 80000, maxIncome |-> Unbounded, rate |-> 35, deduction |-> 9850] >>

\* tax_configurations sample row (2024, 'personal_income'): tax_brackets, with
\* min_income, max_income and deduction in kVND and rate in percent
Brackets2024 ==
  << [minIncome |-> 0,     maxIncome |-> 5000,      rate |-> 5,  deduction |-> 0],
     [minIncome |-> 5000,  maxIncome |-> 10000,     rate |-> 10, deduction |-> 250],
     [minIncome |-> 10000, maxIncome |-> 18000,     rate |-> 15, deduction |-> 750],
     [minIncome |-> 18000, maxIncome |-> 32000,     rate |-> 20, deduction |-> 1650],
     [minIncome |-> 32000, maxIncome |-> 52000,     rate |-> 25, deduction |-> 3250],
     [minIncome |-> 52000, maxIncome |-> 80000,     rate |-> 30, deduction |-> 5850],
     [minIncome |-> 80000, maxIncome |-> Unbounded, rate |-> 35, deduction |-> 9850] >>

\* tax years of the registry; UNIQUE(year, type) allows one personal_income
\* entry for each
Years == {2024, 2025}

NoRule == <<>>
NoLoad == [outcome |-> "none"]
NoResult == [error |-> "not computed"]

\* the walk of the load-time check from bracket i on: every bracket but the
\* last is bounded, starts below its own limit, and the next one starts at
\* that limit; the last one is unbounded
RECURSIVE contiguousFrom(_, _)
contiguousFrom(brackets, i) ==
  IF i = Len(brackets)
  THEN brackets[i].maxIncome = Unbounded
  ELSE /\ brackets[i].maxIncome # Unbounded
       /\ brackets[i].minIncome < brackets[i].maxIncome
       /\ brackets[i + 1].minIncome = brackets[i].maxIncome
       /\ contiguousFrom(brackets, i + 1)

\* the load-time check of a bracket table: it covers [0, unbounded) without
\* gap or overlap, in ascending order
validRuleSet(brackets) ==
  /\ Len(brackets) > 0
  /\ brackets[1].minIncome = 0
  /\ contiguousFrom(brackets, 1)

\* the outcome of offering a table at load time
loadOutcome(brackets) ==
  [outcome |-> IF validRuleSet(brackets) THEN "accepted" ELSE "InvalidRuleSetError",
   brackets |-> brackets]

\* load the personal_income entry of a year, once (the configuration has one
\* entry for each year and type): a malformed table is rejected with
\* InvalidRuleSetError, a well-formed one is published
loadRuleSet(year, brackets) ==
  /\ lastLoad[year] = NoLoad
  /\ lastLoad' = [lastLoad EXCEPT ![year] = loadOutcome(brackets)]
  /\ registry' = IF validRuleSet(brackets)
                 THEN [registry EXCEPT ![year] = brackets]
                 ELSE registry
  /\ UNCHANGED <<taxableIncome, result>>

\* the bracket walk: the index of the first bracket from i on whose half-open
\* interval [minIncome, maxIncome) contains income, 0 when there is none
RECURSIVE locateBracket(_, _, _)
locateBracket(brackets, income, i) ==
  IF i > Len(brackets) THEN 0
  ELSE IF /\ income >= brackets[i].minIncome
          /\ (brackets[i].maxIncome = Unbounded \/ income < brackets[i].maxIncome)
       THEN i
       ELSE locateBracket(brackets, income, i + 1)

Max(a, b) == IF a >= b THEN a ELSE b

\* calculate without the early exit: the prepaid amounts are subtracted
\* from a zero tax as well
calculate_NoEarlyExit(brackets, income, prepaid) ==
  IF income <= 0
  THEN [error |-> "none", bracket |-> 0, tax |-> 0,
        finalTaxAmount |-> Max(0, 0) - prepaid]
  ELSE LET i == locateBracket(brackets, income, 1) IN
       IF i = 0
       THEN [error |-> "InvalidRuleSetError"]
       ELSE LET tax == income * brackets[i].rate - brackets[i].deduction * 100
            IN [error |-> "none", bracket |-> i, tax |-> tax,
                finalTaxAmount |-> Max(0, tax) - prepaid]

\* calculate: tax and prepaid amounts in units of 10 VND (kVND * percent)
calculate(brackets, income, prepaid) ==
  IF income <= 0
  THEN [error |-> "none", bracket |-> 0, tax |-> 0, finalTaxAmount |-> 0]
  ELSE LET i == locateBracket(brackets, income, 1) IN
       IF i = 0
       THEN [error |-> "InvalidRuleSetError"]
       ELSE LET tax == income * brackets[i].rate - brackets[i].deduction * 100
            IN [error |-> "none", bracket |-> i, tax |-> tax,
                finalTaxAmount |-> Max(0, tax) - prepaid]

\* resolve the rule set of a year and calculate with it
Calculate(year, income, prepaid) ==
  /\ taxableIncome' = income
  /\ result' = IF registry[year] = NoRule
               THEN [error |-> "RuleNotFoundError", year |-> year]
               ELSE [year |-> year, prepaid |-> prepaid]
                      @@ calculate(registry[year], income, prepaid)
  /\ UNCHANGED <<registry, lastLoad>>

-----------------------------------------------------------------------------
(* AuthService over MockUserDatabase, behind the /api/auth routes *)

MaxUsers == 2
MaxResetTokens == 2

\* ids of the users map, in insertion order
UserSlots == 1..MaxUsers

NoUser == [id |-> 0]
NoAuthResult == [op |-> "none"]

\* the email of a request body as the client sends it
RawEmails == {"a@x.com", "A@x.com", "b@x.com"}

\* String.prototype.toLowerCase on these addresses
toLowerCase(email) == IF email = "A@x.com" THEN "a@x.com" ELSE email

\* body('email').isEmail().normalizeEmail() of the routes: lower case
normalizeEmail(email) == toLowerCase(email)

Emails == {normalizeEmail(e) : e \in RawEmails}
Passwords == {"pw1", "pw2"}

\* EncryptionService.hashPassword and comparePassword (bcrypt): a hash
\* matches the password it was made from and no other
hashPassword(password) == [bcrypt |-> password]
comparePassword(password, hash) == hash = hashPassword(password)

\* MockUserDatabase.findByEmail: the first user, in insertion order, whose
\* stored email is exactly the given one, or null
findByEmail(email) ==
  LET found == {i \in UserSlots : users[i] # NoUser /\ users[i].email = email}
  IN IF found = {} THEN NoUser
     ELSE users[CHOOSE i \in found : \A j \in found : i <= j]

\* what the caller gets: the status, the success flag, the message and the
\* keys of data
AuthResponse(op, status, success, message, data) ==
  [op |-> op, status |-> status, success |-> success, message |-> message,
   data |-> data]

\* an Error thrown by the service: the controller hands it to next(error)
\* and the error handler answers 500 with the message
Thrown(op, message) == AuthResponse(op, 500, FALSE, message, {})

\* POST /register up to the await of hashPassword: the email is normalized,
\* then looked up
registerFind(r, rawEmail, password) ==
  /\ authReq[r] = Idle
  /\ Cardinality({i \in UserSlots : users[i] # NoUser})
       + Cardinality({q \in Reqs : authReq[q] # Idle}) < MaxUsers
  /\ LET email == normalizeEmail(rawEmail)
         existingUser == findByEmail(email)
     IN IF existingUser # NoUser
        THEN /\ authResult' = Thrown("register", "User with this email already exists")
             /\ UNCHANGED authReq
        ELSE /\ authReq' = [authReq EXCEPT ![r] =
                  [op |-> "register", email |-> email, password |-> password]]
             /\ UNCHANGED authResult
  /\ UNCHANGED <<users, tokens>>

\* POST /register from the await of hashPassword: db.create under a fresh id,
\* storeEmailVerificationToken, 201
registerCreate(r) ==
  /\ authReq[r] # Idle
  /\ LET userId == CHOOSE i \in UserSlots :
                     /\ users[i] = NoUser
                     /\ \A j \in UserSlots : j < i => users[j] # NoUser
         email == toLowerCase(authReq[r].email)
     IN /\ users' = [users EXCEPT ![userId] =
             [email |-> email, password |-> hashPassword(authReq[r].password)]]
        /\ tokens' = [tokens EXCEPT !.verification[email] = @ + 1]
  /\ authResult' = AuthResponse("register", 201, TRUE,
                     "User registered successfully",
                     {"user", "message", "emailVerificationToken"})
  /\ authReq' = [authReq EXCEPT ![r] = Idle]

\* POST /forgot-password: a reset token for a stored user, an Error for
\* any other address
forgotPassword(rawEmail) ==
  LET email == normalizeEmail(rawEmail)
      user == findByEmail(email)
  IN IF user = NoUser
     THEN /\ authResult' = Thrown("forgotPassword",
                             "If the email exists, a reset link has been sent")
          /\ UNCHANGED <<users, tokens, authReq>>
     ELSE /\ tokens.reset[user.email] < MaxResetTokens
          /\ tokens' = [tokens EXCEPT !.reset[user.email] = @ + 1]
          /\ authResult' = AuthResponse("forgotPassword", 200, TRUE,
                             "If the email exists, a reset link has been sent",
                             {"message", "resetToken"})
          /\ UNCHANGED <<users, authReq>>

\* MockUserDatabase.updatePassword on the users map
updatePassword(id, hashedPassword) ==
  IF users[id] = NoUser THEN users
  ELSE [users EXCEPT ![id].password = hashedPassword]

\* POST /change-password of the authenticated user userId: the user is looked
\* up by the email ''
changePassword(userId, currentPassword, newPassword) ==
  /\ LET user == findByEmail("") IN
       IF user = NoUser
       THEN /\ authResult' = Thrown("changePassword", "User not found")
            /\ UNCHANGED users
       ELSE IF ~comparePassword(currentPassword, user.password)
       THEN /\ authResult' = Thrown("changePassword", "Current password is incorrect")
            /\ UNCHANGED users
       ELSE /\ users' = updatePassword(userId, hashPassword(newPassword))
            /\ authResult' =
                 IF users[userId] # NoUser
                 THEN AuthResponse("changePassword", 200, TRUE,
                        "Password changed successfully", {"message"})
                 ELSE AuthResponse("changePassword", 400, FALSE,
                        "Failed to change password", {})
  /\ UNCHANGED <<tokens, authReq>>

InitAuth ==
  /\ users = [i \in UserSlots |-> NoUser]
  /\ tokens = [verification |-> [e \in Emails |-> 0], reset |-> [e \in Emails |-> 0]]
  /\ authReq = [r \in Reqs |-> Idle]
  /\ authResult = NoAuthResult

NextAuth ==
  /\ \/ \E r \in Reqs, e \in RawEmails, pw \in Passwords : registerFind(r, e, pw)
     \/ \E r \in Reqs : registerCreate(r)
     \/ \E e \in RawEmails : forgotPassword(e)
     \/ \E id \in UserSlots, cur \in Passwords, new \in Passwords :
          users[id] # NoUser /\ changePassword(id, cur, new)
  /\ UNCHANGED <<formVars, engineVars, validatorVars, clientVars, rbacVars, auditVars>>

-----------------------------------------------------------------------------
(* ApiService of the frontend: the response interceptor and the server's   *)
(* answers to the calls it makes                                           *)

MaxDepth == 4

\* the refreshToken cookie the browser holds
Cookies == {"none", "valid", "invalid"}

\* answers of an endpoint to the original request
Statuses == {200, 401, 500}

\* endpoints the application calls through this.api
Urls == {"/auth/me", "/auth/logout", "/auth/login"}

\* AuthController.refreshToken: 401 without the cookie, 200 with a new access
\* token for a valid one, and an Error (500) for any other
refreshToken(cookie) ==
  IF cookie = "none" THEN 401
  ELSE IF cookie = "valid" THEN 200
  ELSE 500

\* a request of the axios instance in flight: url and config._retry; a
\* request is "sent" or waits in its interceptor for the refresh call
Request(url, retry, phase) == [url |-> url, retry |-> retry, phase |-> phase]

\* a call of the application through this.api
sendRequest(url) ==
  /\ client.stack = <<>>
  /\ client' = [client EXCEPT
       !.stack = <<Request(url, FALSE, "sent")>>,
       !.refreshCalls = 0,
       !.outcome = "pending"]

\* ApiService.login and logout on the settled call: login stores the access
\* token of a 200 (the server has set the refreshToken cookie), logout
\* removes the token in its finally (a 200 has cleared the cookie)
settled(c, url, ok) ==
  IF url = "/auth/login" /\ ok
  THEN [c EXCEPT !.accessToken = "new", !.cookie = "valid"]
  ELSE IF url = "/auth/logout"
  THEN [c EXCEPT !.accessToken = "none",
                 !.cookie = IF ok THEN "none" ELSE @]
  ELSE c

\* the promise of the request on top settles as fulfilled: the application
\* gets it, or the interceptor below it stores the new token and sends its
\* original request again
fulfilled ==
  LET n == Len(client.stack) IN
  IF n = 1
  THEN client' = settled([client EXCEPT !.stack = <<>>, !.outcome = "resolved"],
                         client.stack[1].url, TRUE)
  ELSE client' = [client EXCEPT
         !.stack = SubSeq(@, 1, n - 2)
                     \o <<[client.stack[n - 1] EXCEPT !.phase = "sent"]>>,
         !.accessToken = "new"]

\* the promise of the request on top settles as rejected: every interceptor
\* waiting below removes the token, redirects to /login and rejects in turn
rejected ==
  IF Len(client.stack) = 1
  THEN client' = settled([client EXCEPT !.stack = <<>>, !.outcome = "rejected"],
                         client.stack[1].url, FALSE)
  ELSE client' = settled([client EXCEPT
                            !.stack = <<>>, !.outcome = "rejected",
                            !.accessToken = "none", !.location = "/login"],
                         client.stack[1].url, FALSE)

\* the response interceptor on an error response with this status: a 401 to
\* a request without _retry marks it and posts /auth/refresh-token through
\* the same instance
onError(status) ==
  LET n == Len(client.stack)
      originalRequest == client.stack[n]
  IN IF status = 401 /\ ~originalRequest.retry
     THEN /\ n < MaxDepth
          /\ client' = [client EXCEPT
               !.stack = SubSeq(@, 1, n - 1)
                           \o <<Request(originalRequest.url, TRUE, "refreshing"),
                                Request("/auth/refresh-token", FALSE, "sent")>>,
               !.refreshCalls = @ + 1]
     ELSE rejected

\* the server answers the request on top
answer(status) ==
  /\ client.stack # <<>>
  /\ LET top == client.stack[Len(client.stack)] IN
       /\ top.phase = "sent"
       /\ top.url = "/auth/refresh-token" => status = refreshToken(client.cookie)
  /\ IF status = 200 THEN fulfilled ELSE onError(status)

InitClient ==
  client = [stack |-> <<>>, accessToken |-> "old", location |-> "/",
            refreshCalls |-> 0, outcome |-> "none", cookie |-> "none"]

-----------------------------------------------------------------------------
(* rbac middleware *)

\* PERMISSIONS
Permissions ==
  {"tax_form:read", "tax_form:write", "tax_form:delete", "tax_form:submit",
   "tax_form:approve", "user:read", "user:write", "user:delete",
   "admin:read", "admin:write", "system:config"}

\* ROLE_PERMISSIONS
ROLE_PERMISSIONS ==
  [individual |-> {"tax_form:read", "tax_form:write", "tax_form:delete",
                   "tax_form:submit", "user:read", "user:write"},
   business |-> {"tax_form:read", "tax_form:write", "tax_form:delete",
                 "tax_form:submit", "user:read", "user:write"},
   consultant |-> {"tax_form:read", "tax_form:write", "tax_form:delete",
                   "tax_form:submit", "tax_form:approve", "user:read",
                   "user:write"},
   admin |-> Permissions]

\* roles a token may carry: the four of the table and two it does not list
Roles == {"individual", "business", "consultant", "admin", "guest", ""}

\* req.user of a request: absent, or a user with a role
Anonymous == "anonymous"
RequestUsers == Roles \cup {Anonymous}

\* hasPermission in which every role has every permission
hasPermission_Always(userRole, permission) == TRUE

\* hasPermission: ROLE_PERMISSIONS[userRole] || [] includes the permission
hasPermission(userRole, permission) ==
  LET rolePermissions == IF userRole \in DOMAIN ROLE_PERMISSIONS
                         THEN ROLE_PERMISSIONS[userRole]
                         ELSE {}
  IN permission \in rolePermissions

NoRequest == [stage |-> "none"]

\* a request reaches the middleware requirePermission(permission)
arrive(user, permission) ==
  rbac' = [stage |-> "arrived", user |-> user, permission |-> permission,
           status |-> 0, code |-> "none", nextCalled |-> FALSE]

\* requirePermission(permission) on the request that arrived
requirePermission ==
  /\ rbac # NoRequest
  /\ rbac.stage = "arrived"
  /\ rbac' =
       IF rbac.user = Anonymous
       THEN [rbac EXCEPT !.stage = "done", !.status = 401,
                         !.code = "AUTHENTICATION_REQUIRED"]
       ELSE IF ~hasPermission(rbac.user, rbac.permission)
       THEN [rbac EXCEPT !.stage = "done", !.status = 403,
                         !.code = "INSUFFICIENT_PERMISSIONS"]
       ELSE [rbac EXCEPT !.stage = "done", !.nextCalled = TRUE]

InitRbac == rbac = NoRequest

NextRbac ==
  /\ \/ \E user \in RequestUsers, permission \in Permissions : arrive(user, permission)
     \/ requirePermission
  /\ UNCHANGED <<formVars, engineVars, validatorVars, authVars, clientVars, auditVars>>

-----------------------------------------------------------------------------
(* Audit middleware of the /api/auth routes *)

\* requests that pass through auditAuthOperation
AuditReqs == {"q1", "q2"}

\* the action names the routes give the middleware, and `${action}_FAILED`
AuditActions == {"REGISTER", "LOGIN"}
failedAction(action) ==
  IF action = "REGISTER" THEN "REGISTER_FAILED" ELSE "LOGIN_FAILED"

\* the bodies the controllers hand to res.json
AuditBodies ==
  {[success |-> TRUE, message |-> "OK"],
   [success |-> FALSE, message |-> "Validation failed"]}

NoBody == [success |-> FALSE, message |-> "none"]
NotWrapped == [stage |-> "idle"]

\* the database behind the pool: not set yet, answering, or failing queries
PoolStates == {"uninitialised", "up", "down"}

\* setAuditPool, called by the main app
setAuditPool ==
  /\ audit.pool = "uninitialised"
  /\ audit' = [audit EXCEPT !.pool = "up"]

\* the database starts or stops failing
poolChanges(to) ==
  /\ audit.pool \in {"up", "down"}
  /\ to \in {"up", "down"}
  /\ to # audit.pool
  /\ audit' = [audit EXCEPT !.pool = to]

\* logAuditEvent: nothing without pool, the INSERT with it; an error of the
\* query is caught and logged to the console
logAuditEvent(logs, pool, data) ==
  IF pool = "uninitialised" THEN logs
  ELSE IF pool = "down" THEN logs
  ELSE Append(logs, data)

\* auditAuthOperation(action): res.send is replaced and next is called
auditAuthOperation(q, action) ==
  /\ audit.reqs[q] = NotWrapped
  /\ audit' = [audit EXCEPT !.reqs[q] =
       [stage |-> "wrapped", action |-> action, handed |-> NoBody,
        delivered |-> NoBody]]

\* the replaced res.send with the audit row written before the response
send_LogFirst(q, data) ==
  /\ audit.reqs[q] # NotWrapped
  /\ audit.reqs[q].stage = "wrapped"
  /\ audit' = [audit EXCEPT
       !.reqs[q] = [@ EXCEPT !.stage = "audited", !.handed = data,
                             !.delivered = data],
       !.logs = logAuditEvent(@, audit.pool,
                  [req |-> q,
                   action |-> IF data.success # FALSE THEN audit.reqs[q].action
                              ELSE failedAction(audit.reqs[q].action),
                   success |-> data.success # FALSE])]

\* the replaced res.send, called by the handler with its body: the audit is
\* scheduled with setImmediate and originalSend delivers the body
send(q, data) ==
  /\ audit.reqs[q] # NotWrapped
  /\ audit.reqs[q].stage = "wrapped"
  /\ audit' = [audit EXCEPT
       !.reqs[q] = [@ EXCEPT !.stage = "delivered", !.handed = data,
                             !.delivered = data]]

\* the setImmediate callback: the row of a success or of a failure, by the
\* success flag of the body
immediate(q) ==
  /\ audit.reqs[q] # NotWrapped
  /\ audit.reqs[q].stage = "delivered"
  /\ LET responseData == audit.reqs[q].handed
         success == responseData.success # FALSE
     IN audit' = [audit EXCEPT
          !.reqs[q].stage = "audited",
          !.logs = logAuditEvent(@, audit.pool,
                     [req |-> q,
                      action |-> IF success THEN audit.reqs[q].action
                                 ELSE failedAction(audit.reqs[q].action),
                      success |-> success])]

InitAudit ==
  audit = [pool |-> "uninitialised", reqs |-> [q \in AuditReqs |-> NotWrapped],
           logs |-> <<>>]

NextAudit ==
  /\ \/ setAuditPool
     \/ \E to \in PoolStates : poolChanges(to)
     \/ \E q \in AuditReqs, action \in AuditActions : auditAuthOperation(q, action)
     \/ \E q \in AuditReqs, data \in AuditBodies : send(q, data)
     \/ \E q \in AuditReqs : immediate(q)
  /\ UNCHANGED <<formVars, engineVars, validatorVars, authVars, clientVars, rbacVars>>

-----------------------------------------------------------------------------
(* Specification of the form handlers, two requests interleaved *)

NoResponse == Response("none", 0, "none")

InitForms ==
  /\ forms = [id \in FormIds |-> NoForm]
  /\ fields = [fid \in FieldIds |-> NoField]
  /\ req = [r \in Reqs |-> Idle]
  /\ response = NoResponse

InitEngineIdle ==
  /\ registry = [y \in Years |-> NoRule]
  /\ lastLoad = [y \in Years |-> NoLoad]
  /\ taxableIncome = 0
  /\ result = NoResult

Init ==
  /\ InitForms
  /\ InitEngineIdle
  /\ InitValidatorIdle
  /\ InitAuth
  /\ InitClient
  /\ InitRbac
  /\ InitAudit

Handlers(r) ==
  \/ \E u \in UserIds, n \in Notes : createTaxForm(r, u, n)
  \/ \E u \in UserIds, id \in FormIds : getTaxForm(r, u, id)
  \/ \E u \in UserIds, id \in FormIds, body \in Bodies : updateTaxFormFind(r, u, id, body)
  \/ updateTaxFormWrite(r)
  \/ \E u \in UserIds, id \in FormIds : submitTaxFormFind(r, u, id)
  \/ \E now \in Dates : submitTaxFormWrite(r, now)

Next ==
  /\ \E r \in Reqs : Handlers(r)
  /\ UNCHANGED <<engineVars, validatorVars, authVars, clientVars, rbacVars, auditVars>>

Spec == Init /\ [][Next]_vars

\* the handlers of one request at a time
NextOneRequest ==
  /\ Handlers("r1")
  /\ UNCHANGED <<engineVars, validatorVars, authVars, clientVars, rbacVars, auditVars>>

SpecOneRequest == Init /\ [][NextOneRequest]_vars

\* PUT bodies that leave the status alone
NotesBodies == {body \in Bodies : body.status = Undefined}

\* create, PUT of notes and submit, two requests interleaved: here only
\* submitTaxForm writes the status
NextUpdateSubmit ==
  /\ \E r \in Reqs :
       \/ \E u \in UserIds, n \in Notes : createTaxForm(r, u, n)
       \/ \E u \in UserIds, id \in FormIds, body \in NotesBodies :
            updateTaxFormFind(r, u, id, body)
       \/ updateTaxFormWrite(r)
       \/ \E u \in UserIds, id \in FormIds : submitTaxFormFind(r, u, id)
       \/ \E now \in Dates : submitTaxFormWrite(r, now)
  /\ UNCHANGED <<engineVars, validatorVars, authVars, clientVars, rbacVars, auditVars>>

SpecUpdateSubmit == Init /\ [][NextUpdateSubmit]_vars

\* the handlers of one request at a time, together with the field queries
NextFields ==
  /\ \/ Handlers("r1")
     \/ \E fid \in FieldIds, id \in FormIds, n \in FieldNames, c \in BOOLEAN,
           v \in FieldValues : createField(fid, id, n, c, v)
     \/ \E fid \in FieldIds, v \in FieldValues : updateFieldValue(fid, v)
  /\ UNCHANGED <<engineVars, validatorVars, authVars, clientVars, rbacVars, auditVars>>

SpecFields == Init /\ [][NextFields]_vars

-----------------------------------------------------------------------------
(* Specifications of the auth service, the API client and the middleware *)

SpecAuth == Init /\ [][NextAuth]_vars

InitApi ==
  /\ InitForms
  /\ InitEngineIdle
  /\ InitValidatorIdle
  /\ InitAuth
  /\ InitRbac
  /\ InitAudit
  /\ \E cookie \in Cookies, token \in {"none", "old"} :
       client = [stack |-> <<>>, accessToken |-> token, location |-> "/",
                 refreshCalls |-> 0, outcome |-> "none", cookie |-> cookie]

NextApi ==
  /\ \/ \E url \in Urls : sendRequest(url)
     \/ \E status \in Statuses : answer(status)
  /\ UNCHANGED <<formVars, engineVars, validatorVars, authVars, rbacVars, auditVars>>

SpecApi == InitApi /\ [][NextApi]_vars

SpecRbac == Init /\ [][NextRbac]_vars

SpecAudit == Init /\ [][NextAudit]_vars

-----------------------------------------------------------------------------
(* Specification of the validator: a fieldValues map, validated against the *)
(* TNCN_ANNUAL template and its variants with other required flags         *)

\* the field names of the template, in declared order
TemplateFieldNames ==
  [i \in 1..Len(TNCN_ANNUAL.sections[1].fields) |->
     TNCN_ANNUAL.sections[1].fields[i].name]

\* the template with the required flag of its i-th field set to flags[i]
withRequired(flags) ==
  [TNCN_ANNUAL EXCEPT !.sections[1].fields =
     [i \in DOMAIN @ |-> [@[i] EXCEPT !.required = flags[i]]]]

Templates ==
  {TNCN_ANNUAL} \cup {withRequired(flags) : flags \in [DOMAIN TemplateFieldNames -> BOOLEAN]}

\* the maps from some of the field names to a value
FieldValueMaps ==
  UNION {[names -> FieldValues] :
           names \in SUBSET {TemplateFieldNames[i] : i \in DOMAIN TemplateFieldNames}}

InitValidate ==
  /\ InitForms
  /\ InitEngineIdle
  /\ InitAuth
  /\ InitClient
  /\ InitRbac
  /\ InitAudit
  /\ inputValues \in FieldValueMaps
  /\ validation = NoValidation

NextValidate ==
  /\ \E template \in Templates : Validate(template)
  /\ UNCHANGED <<formVars, engineVars, authVars, clientVars, rbacVars, auditVars>>

SpecValidate == InitValidate /\ [][NextValidate]_vars

-----------------------------------------------------------------------------
(* Specification of the rule registry: tables offered at load time *)

MaxLimit == 2
MaxBrackets == 2

\* small brackets, and the tables of at most MaxBrackets of them
SmallBrackets ==
  [minIncome : 0..MaxLimit, maxIncome : (1..MaxLimit) \cup {Unbounded},
   rate : {10}, deduction : {0}]

SmallTables == UNION {[1..n -> SmallBrackets] : n \in 1..MaxBrackets}

\* the tables offered for a year: the shipped row for 2024, any table for the
\* year after
Candidates(year) ==
  IF year = 2024 THEN {Brackets2024} ELSE SmallTables \cup {Brackets2024}

NextRules ==
  /\ \E y \in Years : \E brackets \in Candidates(y) : loadRuleSet(y, brackets)
  /\ UNCHANGED <<formVars, validatorVars, authVars, clientVars, rbacVars, auditVars>>

SpecRules == Init /\ [][NextRules]_vars

-----------------------------------------------------------------------------
(* Specification of the calculator over the shipped registry *)

MaxSteps == 100

\* taxable incomes in kVND: a grid of steps of 1,000,000 VND from below zero
\* on, and the neighbourhood of every bracket edge of the shipped table
Incomes ==
  {k * 1000 : k \in (-1)..MaxSteps}
    \cup UNION {{Brackets2024[i].minIncome - 1, Brackets2024[i].minIncome,
                 Brackets2024[i].minIncome + 1} : i \in 1..Len(Brackets2024)}

\* prepaid or withheld amounts, in units of 10 VND
Prepaid == {0, 100000}

InitCalc ==
  /\ InitForms
  /\ InitValidatorIdle
  /\ InitAuth
  /\ InitClient
  /\ InitRbac
  /\ InitAudit
  /\ registry = [y \in Years |-> IF y = 2024 /\ validRuleSet(Brackets2024)
                                 THEN Brackets2024 ELSE NoRule]
  /\ lastLoad = [y \in Years |-> IF y = 2024 THEN loadOutcome(Brackets2024)
                                 ELSE NoLoad]
  /\ taxableIncome = 0
  /\ result = NoResult

NextCalc ==
  /\ \E y \in Years, income \in Incomes, p \in Prepaid : Calculate(y, income, p)
  /\ UNCHANGED <<formVars, validatorVars, authVars, clientVars, rbacVars, auditVars>>

SpecCalc == InitCalc /\ [][NextCalc]_vars

-----------------------------------------------------------------------------
(* Properties of the form handlers *)

\* the field rows of a form
fieldsOf(id) ==
  {fid \in FieldIds : fields[fid] # NoField /\ fields[fid].taxFormId = id}

\* C1: once a form is SUBMITTED, no request changes the stored form or the
\* value of one of its fields, whoever the caller is.
C1_SubmittedFrozen ==
  [][\A id \in FormIds :
       forms[id].status = "SUBMITTED" =>
         /\ forms'[id] = forms[id]
         /\ \A fid \in fieldsOf(id) : fields'[fid] = fields[fid]]_vars

\* the edges of the FormInstance state machine
Edges ==
  {<<"DRAFT", "COMPLETED">>, <<"COMPLETED", "SUBMITTED">>,
   <<"SUBMITTED", "APPROVED">>, <<"SUBMITTED", "REJECTED">>,
   <<"DRAFT", "CANCELLED">>, <<"COMPLETED", "CANCELLED">>}

\* C2: a new form starts in DRAFT and every later change of its status
\* follows an edge of the state machine; no request moves a form to APPROVED
\* or REJECTED.
C2_StatusFollowsEdges ==
  [][\A id \in FormIds :
       /\ (forms[id] = NoForm /\ forms'[id] # NoForm) => forms'[id].status = "DRAFT"
       /\ (forms[id] # NoForm /\ forms'[id].status # forms[id].status) =>
            /\ <<forms[id].status, forms'[id].status>> \in Edges
            /\ forms'[id].status \notin {"APPROVED", "REJECTED"}]_vars

\* C3: an updateTaxForm request that finds the form APPROVED or REJECTED is
\* refused: it never passes the checks of the handler to reach the write.
C3_LaterStatesRejectEdits ==
  [][\A r \in Reqs :
       ~ /\ req[r] = Idle
         /\ req'[r] # Idle
         /\ req'[r].op = "update"
         /\ forms[req'[r].id].status \in {"APPROVED", "REJECTED"}]_vars

\* C4: a form has version 1 when created, and every write that changes a
\* stored form increases its version.
C4_VersionBumped ==
  [][\A id \in FormIds :
       /\ (forms[id] = NoForm /\ forms'[id] # NoForm) => forms'[id].version = 1
       /\ (forms[id] # NoForm /\ forms'[id] # forms[id]) =>
            forms'[id].version > forms[id].version]_vars

\* C5: a form becomes COMPLETED only when the validation of its field values
\* against its template reports isValid.
C5_CompletedOnlyIfValid ==
  [][\A id \in FormIds :
       (forms[id] # NoForm /\ forms[id].status # "COMPLETED"
          /\ forms'[id].status = "COMPLETED") =>
         validate(TNCN_ANNUAL, fieldValuesOf(id)).isValid]_vars

\* C6: a form that is SUBMITTED or APPROVED never becomes CANCELLED.
C6_NoCancelAfterSubmit ==
  [][\A id \in FormIds :
       forms[id].status \in {"SUBMITTED", "APPROVED"} =>
         forms'[id].status # "CANCELLED"]_vars

\* C7: the value of a field with isCalculated = true is never changed by a
\* user-initiated field write.
C7_CalculatedNotEditable ==
  [][\A fid \in FieldIds :
       (fields[fid] # NoField /\ fields[fid].isCalculated) =>
         fields'[fid].fieldValue = fields[fid].fieldValue]_vars

-----------------------------------------------------------------------------
(* Properties of the rule registry and the calculator *)

\* the invariant of a bracket table: sorted ascending by minIncome, starting
\* at 0, each bracket starting at the limit of the one before, and exactly the
\* last one unbounded
WellFormed(brackets) ==
  LET n == Len(brackets) IN
  /\ n > 0
  /\ \A i, j \in 1..n : i < j => brackets[i].minIncome < brackets[j].minIncome
  /\ brackets[1].minIncome = 0
  /\ \A i \in 1..(n - 1) : brackets[i + 1].minIncome = brackets[i].maxIncome
  /\ {i \in 1..n : brackets[i].maxIncome = Unbounded} = {n}

\* C8: every rule set in the registry is sorted, contiguous from 0 and ends in
\* one unbounded bracket; a table offered at load time that is not is rejected
\* and never enters the registry; the shipped 2024 table is accepted.
C8_AcceptedRuleSetsWellFormed ==
  \A y \in Years :
    /\ registry[y] # NoRule => WellFormed(registry[y])
    /\ lastLoad[y] # NoLoad =>
         /\ ~WellFormed(lastLoad[y].brackets) =>
              /\ lastLoad[y].outcome = "InvalidRuleSetError"
              /\ registry[y] = NoRule
         /\ lastLoad[y].brackets = Brackets2024 =>
              /\ lastLoad[y].outcome = "accepted"
              /\ registry[y] = Brackets2024

\* the shipped table is published for 2024 and a malformed table was
\* rejected for 2025
C8_Witness ==
  /\ registry[2024] = Brackets2024
  /\ lastLoad[2025] # NoLoad
  /\ lastLoad[2025].outcome = "InvalidRuleSetError"

\* the brackets of a table whose half-open interval contains income
containing(brackets, income) ==
  {i \in 1..Len(brackets) :
     /\ brackets[i].minIncome <= income
     /\ (brackets[i].maxIncome = Unbounded \/ income < brackets[i].maxIncome)}

\* C9: for a taxable income above 0 exactly one bracket contains the income,
\* the tax is income * rate - deduction of that bracket, an income equal to a
\* bracket's minIncome resolves to that bracket, and 6,000,000 VND gives
\* 350,000 VND with the 2024 table.
C9_BracketTax ==
  (taxableIncome > 0 /\ result # NoResult /\ result.error # "RuleNotFoundError") =>
    /\ result.error = "none"
    /\ LET brackets == registry[result.year]
           b == brackets[result.bracket]
       IN /\ containing(brackets, taxableIncome) = {result.bracket}
          /\ result.tax = taxableIncome * b.rate - b.deduction * 100
          /\ \A i \in 1..Len(brackets) :
               brackets[i].minIncome = taxableIncome => result.bracket = i
          /\ taxableIncome = 6000 => result.tax = 35000

\* an income exactly at the edge of 5,000,000 VND was resolved to the bracket
\* that starts there
C9_Witness ==
  /\ taxableIncome = 5000
  /\ result.error = "none"
  /\ result.bracket = 2

\* C10: of two calculations with the same rule set, the one with the larger
\* taxable income (both at least 0) never yields the strictly smaller tax.
C10_Monotonic ==
  [][(/\ result.error = "none"
      /\ result'.error = "none"
      /\ result'.year = result.year
      /\ taxableIncome >= 0
      /\ taxableIncome' >= taxableIncome) => result'.tax >= result.tax]_vars

\* a calculation exactly at the edge of 10,000,000 VND
C10_Witness ==
  /\ taxableIncome = 10000
  /\ result.error = "none"
  /\ result.tax = 75000

\* the full tax of the brackets 1..i: (maxIncome - minIncome) * rate each
RECURSIVE lowerBracketsTax(_, _)
lowerBracketsTax(brackets, i) ==
  IF i = 0 THEN 0
  ELSE (brackets[i].maxIncome - brackets[i].minIncome) * brackets[i].rate
         + lowerBracketsTax(brackets, i - 1)

\* the marginal computation: the full tax of every bracket below bracket i
\* and the rate of bracket i on the income above its minIncome
marginalTax(brackets, income, i) ==
  lowerBracketsTax(brackets, i - 1)
    + (income - brackets[i].minIncome) * brackets[i].rate

\* C11: for every taxable income above 0 the tax computed with the
\* cumulative deduction of the containing bracket equals the marginal
\* computation over the brackets of the rule set.
C11_CumulativeEqualsMarginal ==
  (taxableIncome > 0 /\ result # NoResult /\ result.error = "none") =>
    result.tax = marginalTax(registry[result.year], taxableIncome, result.bracket)

\* a calculation in the unbounded bracket: 90,000,000 VND
C11_Witness ==
  /\ taxableIncome = 90000
  /\ result.error = "none"
  /\ result.bracket = 7
  /\ result.tax = 2165000

\* C12: a calculation with a taxable income of 0 or less yields
\* finalTaxAmount 0 and looks up no bracket, whatever amounts were prepaid.
C12_NoTaxNoLookup ==
  (result # NoResult /\ result.error = "none" /\ taxableIncome <= 0) =>
    /\ result.finalTaxAmount = 0
    /\ result.bracket = 0

\* a calculation with a negative taxable income and amounts prepaid
C12_Witness ==
  /\ taxableIncome < 0
  /\ result.error = "none"
  /\ result.prepaid > 0
  /\ result.finalTaxAmount = 0

-----------------------------------------------------------------------------
(* Properties of the validator *)

\* the value of a field is absent or empty in the map given to the validator
missing(name) ==
  name \notin DOMAIN validation.input \/ validation.input[name] = ""

\* the errors recorded for a field
errorsOf(name) ==
  {k \in DOMAIN validation.errors : validation.errors[k].field = name}

-----------------------------------------------------------------------------
(* Properties of the access checks of the form handlers *)

C15_SubmitExactly ==
  [][\A r \in Reqs, id \in FormIds :
       forms[id] # NoForm =>
         /\ \A u \in UserIds :
              submitTaxFormFind(r, u, id) =>
                LET owner == forms[id].userId = u
                    open == forms[id].status \in {"DRAFT", "COMPLETED"}
                IN /\ forms' = forms
                   /\ req'[r] # Idle <=> (owner /\ open)
                   /\ (owner /\ ~open) =>
                        response' = Response("submit", 400, "INVALID_STATUS")
         /\ \A now \in Dates :
              (/\ req[r] # Idle
               /\ req[r].op = "submit"
               /\ req[r].id = id
               /\ submitTaxFormWrite(r, now)) =>
                /\ forms'[id].status = "SUBMITTED"
                /\ forms'[id].submissionDate = now
                /\ response' = Response("submit", 200, "OK")]_vars

\* a form was submitted: it is SUBMITTED with its submission date
C15_Witness ==
  /\ forms["f1"] # NoForm
  /\ forms["f1"].status = "SUBMITTED"
  /\ forms["f1"].submissionDate = "t1"
  /\ response = Response("submit", 200, "OK")

-----------------------------------------------------------------------------
(* Properties of the auth service *)

\* C16: no two stored users have the same email address, compared without
\* regard to case.
C16_UniqueEmails ==
  \A i, j \in UserSlots :
    (i # j /\ users[i] # NoUser /\ users[j] # NoUser) =>
      toLowerCase(users[i].email) # toLowerCase(users[j].email)

\* C17: changePassword of a stored user with the current password that
\* matches the stored hash replaces the hash by that of the new password and
\* succeeds.
C17_ChangePassword ==
  [][\A id \in UserSlots, cur \in Passwords, new \in Passwords :
       (/\ users[id] # NoUser
        /\ comparePassword(cur, users[id].password)
        /\ changePassword(id, cur, new)) =>
         /\ users'[id].password = hashPassword(new)
         /\ authResult'.success]_vars

\* what the caller of an endpoint observes: status, success flag and the
\* shape of the body
observable(a) ==
  [status |-> a.status, success |-> a.success, data |-> a.data]

\* C18: two forgotPassword requests, one after the other, have the same
\* observable outcome, whether or not their emails are registered.
C18_ForgotPasswordOpaque ==
  [][(authResult.op = "forgotPassword" /\ authResult'.op = "forgotPassword") =>
       observable(authResult') = observable(authResult)]_vars

-----------------------------------------------------------------------------
(* Properties of the API client *)

\* C19: for one request of the application the client calls
\* /auth/refresh-token at most once.
C19_AtMostOneRefresh == client.refreshCalls <= 1

-----------------------------------------------------------------------------
(* Properties of the rbac middleware *)

-----------------------------------------------------------------------------
(* Properties of the audit middleware *)

\* C21: for every request that passes through auditAuthOperation the client
\* gets the body the handler handed to res.send, unchanged; the audit row of
\* a request is written only in a step taken after its response was
\* delivered; and the audit step, whether the pool is missing, failing or
\* answering, completes and leaves the delivered response as it was.
C21_ResponseBeforeAudit ==
  [][\A q \in AuditReqs :
       LET before == audit.reqs[q]
           after == audit'.reqs[q]
       IN /\ after.stage \in {"delivered", "audited"} =>
               after.delivered = after.handed
          /\ before.stage \in {"delivered", "audited"} =>
               /\ after.stage \in {"delivered", "audited"}
               /\ after.delivered = before.delivered
          /\ (\E i \in 1..Len(audit'.logs) :
                i > Len(audit.logs) /\ audit'.logs[i].req = q) =>
               before.stage = "delivered"
          /\ immediate(q) =>
               /\ after.stage = "audited"
               /\ audit.pool # "up" => audit'.logs = audit.logs]_vars

\* the audit of a delivered failure answer ran while the pool could not
\* write, and the audit of a delivered success answer wrote its row
C21_Witness ==
  /\ audit.reqs["q1"].stage = "audited"
  /\ audit.reqs["q1"].delivered = [success |-> FALSE, message |-> "Validation failed"]
  /\ audit.reqs["q2"].stage = "audited"
  /\ audit.reqs["q2"].delivered = [success |-> TRUE, message |-> "OK"]
  /\ Len(audit.logs) = 1
  /\ audit.logs[1].req = "q2"

-----------------------------------------------------------------------------
(* Properties of interleaved requests on one form *)

\* C22: the write of an updateTaxForm request of a caller who is not admin,
\* with notes to set, is never applied to a form whose status a
\* submitTaxForm request has set to SUBMITTED since the update checked it.
C22_UpdateNotAfterSubmit ==
  [][\A r \in Reqs :
       (/\ req[r] # Idle
        /\ req[r].op = "update"
        /\ roleOf[req[r].user] # "admin"
        /\ req[r].updates.notes # Undefined
        /\ updateTaxFormWrite(r)) =>
         forms[req[r].id].status # "SUBMITTED"]_vars

\* C23: of the submitTaxForm requests on one form at most one is answered
\* with success: a submit that answers 200 found the form DRAFT or COMPLETED
\* at the time of its write, not already SUBMITTED by another submit.
C23_OneSubmitSucceeds ==
  [][\A r \in Reqs, now \in Dates :
       (/\ req[r] # Idle
        /\ req[r].op = "submit"
        /\ submitTaxFormWrite(r, now)) =>
         forms[req[r].id].status \in {"DRAFT", "COMPLETED"}]_vars

====
